---- MODULE Spec2Model ----
(***************************************************************************)
(* configdot: an INI-like configuration format with nested sections.       *)
(*                                                                         *)
(* Text is modelled as sequences of tokens.  A token is one character of   *)
(* the punctuation the regexes and the literal grammar look at, or a       *)
(* non-empty run of word characters (\w) that is never split.  A name is   *)
(* the sequence of word tokens the regex group captured.  A literal value  *)
(* is kept as its abstract syntax, written as the token sequence of the    *)
(* literal without any whitespace (ast.literal_eval builds it from text,   *)
(* pprint.pformat renders it back with its own spacing).                   *)
(***************************************************************************)
EXTENDS Integers, Sequences, FiniteSets, TLC

VARIABLES
    heap,               \* the objects: ConfigContainer and ConfigItem instances, by id
    config,             \* _parse_config: the root container (id)
    sections,           \* _parse_config: the dict container -> level, in insertion order
    comment_lines,      \* _parse_config: comments collected for the next item/section
    current_section,    \* _parse_config: container receiving item definitions (None = 0)
    current_item_name,  \* _parse_config: name of the unfinished definition (None = <<>>)
    current_def_lines,  \* _parse_config: fragments of the unfinished definition
    lnum,               \* _parse_config: number of the line last read
    li,                 \* _parse_config: the line last read
    status,             \* _parse_config: "running", "returned" or "raised"
    error,              \* _parse_config: the exception raised, [kind, line]
    call,               \* the last attribute access made by a caller, and its outcome
    nwrites,            \* number of attribute assignments made by callers
    args,               \* update_config: the arguments of the call
    upd,                \* update_config: position in the two loops, sec_old, outcome
    warnings,           \* update_config: the warnings logged
    heap0               \* update_config: the objects as they were when it was called

parserVars == <<config, sections, comment_lines, current_section,
                current_item_name, current_def_lines, lnum, li, status, error>>
callerVars == <<call, nwrites>>
mergeVars == <<args, upd, warnings, heap0>>

vars == <<heap, parserVars, callerVars, mergeVars>>

-----------------------------------------------------------------------------
(* Bounds of the model *)

\* number of input lines fed to _parse_config
MaxLines == 4

\* number of attribute assignments a caller makes on a parsed tree
MaxWrites == 2

-----------------------------------------------------------------------------
(* Tokens *)

WS == " "
NL == "\n"
Digits == {"1", "2"}
\* \w: letters, digits, underscore
WordTokens == {"a", "b", "x", "y", "value", "_comment", "_items"} \cup Digits
\* every token of the modelled text
Tokens == WordTokens \cup {WS, NL, "[", "]", "(", ")", ",", "=", "-", "#", ";"}
None == 0

\* number of leading tokens of s that are in S
PrefixLen(s, S) ==
    IF \A i \in 1..Len(s) : s[i] \in S THEN Len(s)
    ELSE (CHOOSE i \in 1..Len(s) : s[i] \notin S /\ \A j \in 1..(i-1) : s[j] \in S) - 1

Drop(s, n) == SubSeq(s, n + 1, Len(s))
Take(s, n) == SubSeq(s, 1, n)
Reverse(s) == [i \in 1..Len(s) |-> s[Len(s) + 1 - i]]

\* str.lstrip / rstrip / strip, and the \s* at either end of a regex
LStrip(s) == Drop(s, PrefixLen(s, {WS}))
RStrip(s) == Take(s, Len(s) - PrefixLen(Reverse(s), {WS}))
Strip(s) == LStrip(RStrip(s))

RECURSIVE Join(_, _)
\* sep.join(parts)
Join(parts, sep) ==
    IF parts = <<>> THEN <<>>
    ELSE IF Len(parts) = 1 THEN parts[1]
    ELSE parts[1] \o sep \o Join(Tail(parts), sep)

-----------------------------------------------------------------------------
(* Line classification *)

NoMatch == [ok |-> FALSE, name |-> <<>>, level |-> 0, val |-> <<>>]

\* RE_COMMENT = \s*[#;]\s*(.*)
CommentMatch(t) == t # <<>> /\ t[1] \in {"#", ";"}
_is_comment(s) == CommentMatch(LStrip(s))

\* group 1 of RE_COMMENT
CommentText(s) == LStrip(Tail(LStrip(s)))

\* RE_WHITESPACE = \s*$
_is_whitespace(s) == \A i \in 1..Len(s) : s[i] = WS

\* RE_ITEM_DEF = \s*(\w+)\s*=\s*(.*?)\s*$, after the leading \s*: n is the
\* length of (\w+), rest what follows it and \s*
ItemDefMatch(t, n, rest) ==
    IF n >= 1 /\ rest # <<>> /\ rest[1] = "="
    THEN [ok |-> TRUE, name |-> Take(t, n), level |-> 0, val |-> Strip(Tail(rest))]
    ELSE NoMatch

ItemDefWord(t, n) == ItemDefMatch(t, n, LStrip(Drop(t, n)))
ItemDefStripped(t) == ItemDefWord(t, PrefixLen(t, WordTokens))
_parse_item_def(s) == ItemDefStripped(LStrip(s))

\* RE_SECTION_HEADER = \s*(\[+)([\w-]+)(\]+)\s*$, and line 64: the two bracket
\* runs must have the same length.  t2 starts at the name, t3 after it.
HeaderMatch(opening, t2, n, t3, closing) ==
    IF opening >= 1 /\ n >= 1 /\ closing >= 1 /\ Drop(t3, closing) = <<>>
       /\ opening = closing
    THEN [ok |-> TRUE, name |-> Take(t2, n), level |-> opening, val |-> <<>>]
    ELSE NoMatch

HeaderClosing(opening, t2, n, t3) == HeaderMatch(opening, t2, n, t3, PrefixLen(t3, {"]"}))
HeaderName(opening, t2, n) == HeaderClosing(opening, t2, n, Drop(t2, n))
HeaderOpening(opening, t2) == HeaderName(opening, t2, PrefixLen(t2, WordTokens \cup {"-"}))
HeaderStripped(t, opening) == HeaderOpening(opening, Drop(t, opening))
HeaderBrackets(t) == HeaderStripped(t, PrefixLen(t, {"["}))
_parse_section_header(s) == HeaderBrackets(Strip(s))

\* the branch of the if/elif chain of _parse_config that a line takes
LineKind(s) ==
    IF _parse_section_header(s).ok THEN "header"
    ELSE IF _is_comment(s) THEN "comment"
    ELSE IF _is_whitespace(s) THEN "whitespace"
    ELSE IF _parse_item_def(s).ok THEN "itemdef"
    ELSE "other"

-----------------------------------------------------------------------------
(* Literals: ast.literal_eval and pprint.pformat, on integers (optionally    *)
(* negative), lists and tuples.  Any other token makes the evaluation fail,  *)
(* as a name or an operator does in Python; a # starts a Python comment.     *)

Fail == [ok |-> FALSE, val |-> <<>>, elems |-> <<>>, commas |-> 0, next |-> 0]

SkipWs(s, i) == i + PrefixLen(Drop(s, i - 1), {WS})

\* the value of a display: [e1, e2], (e1, e2), (e1,), and (e) which is e
ListValue(r) ==
    IF r.ok THEN [r EXCEPT !.val = <<"[">> \o Join(r.elems, <<",">>) \o <<"]">>]
    ELSE Fail

TupleOf(elems) ==
    IF Len(elems) = 1 THEN <<"(">> \o elems[1] \o <<",", ")">>
    ELSE <<"(">> \o Join(elems, <<",">>) \o <<")">>

ParenValue(r) ==
    IF ~r.ok THEN Fail
    ELSE IF Len(r.elems) = 1 /\ r.commas = 0 THEN [r EXCEPT !.val = r.elems[1]]
    ELSE [r EXCEPT !.val = TupleOf(r.elems)]

\* the digits at s[j..], n of them, with an optional sign in front
NumberValue(s, sign, j, n) ==
    IF n >= 1
    THEN [Fail EXCEPT !.ok = TRUE, !.val = sign \o SubSeq(s, j, j + n - 1), !.next = j + n]
    ELSE Fail

NumberAt(s, sign, j) == NumberValue(s, sign, j, PrefixLen(Drop(s, j - 1), Digits))

AtEnd(s, k, closer) == IF closer = "" THEN k > Len(s) ELSE k <= Len(s) /\ s[k] = closer

Done(k, elems, commas) ==
    [ok |-> TRUE, val |-> <<>>, elems |-> elems, commas |-> commas, next |-> k + 1]

RECURSIVE AtomAt(_, _)
RECURSIVE ElemsAt(_, _, _, _, _)

\* comma-separated elements from s[i] up to `closer` ("" is the end of the
\* text); a trailing comma is allowed
ParseElems(s, i, closer, acc, commas) == ElemsAt(s, SkipWs(s, i), closer, acc, commas)

\* one element at s[j]: a number, a list display or a parenthesised form
AtomAt(s, j) ==
    IF j > Len(s) THEN Fail
    ELSE IF s[j] \in Digits THEN NumberAt(s, <<>>, j)
    ELSE IF s[j] = "-" THEN NumberAt(s, <<"-">>, SkipWs(s, j + 1))
    ELSE IF s[j] = "[" THEN ListValue(ParseElems(s, j + 1, "]", <<>>, 0))
    ELSE IF s[j] = "(" THEN ParenValue(ParseElems(s, j + 1, ")", <<>>, 0))
    ELSE Fail

\* after element a, at s[k]: a comma, the closer, or a syntax error
AfterAtom(s, a, k, closer, acc, commas) ==
    IF k <= Len(s) /\ s[k] = ","
    THEN ParseElems(s, k + 1, closer, Append(acc, a.val), commas + 1)
    ELSE IF AtEnd(s, k, closer) THEN Done(k, Append(acc, a.val), commas)
    ELSE Fail

Atom(s, a, closer, acc, commas) ==
    IF ~a.ok THEN Fail ELSE AfterAtom(s, a, SkipWs(s, a.next), closer, acc, commas)

ElemsAt(s, j, closer, acc, commas) ==
    IF AtEnd(s, j, closer) THEN Done(j, acc, commas)
    ELSE Atom(s, AtomAt(s, j), closer, acc, commas)

\* the expression at the top level: one element, or a tuple without parentheses
TopLevel(r) ==
    IF ~r.ok \/ r.elems = <<>> THEN [ok |-> FALSE, val |-> <<>>]
    ELSE IF r.commas = 0 THEN [ok |-> TRUE, val |-> r.elems[1]]
    ELSE [ok |-> TRUE, val |-> TupleOf(r.elems)]

\* ast.literal_eval(text): [ok, val]; ok = FALSE stands for ValueError/SyntaxError
literal_eval(text) ==
    TopLevel(ParseElems(Take(text, PrefixLen(text, Tokens \ {"#"})), 1, "", <<>>, 0))

RECURSIVE pformat(_)
\* pprint.pformat(value), for values that fit on one line: a comma is followed
\* by a space except the comma closing a one-element tuple
pformat(v) ==
    IF v = <<>> THEN <<>>
    ELSE IF v[1] = "," /\ Len(v) > 1 /\ v[2] # ")" THEN <<",", WS>> \o pformat(Tail(v))
    ELSE <<v[1]>> \o pformat(Tail(v))

-----------------------------------------------------------------------------
(* The objects.  A Python value is either a plain literal (ref = None, lit    *)
(* its syntax) or a reference to a ConfigItem/ConfigContainer (ref = its id). *)

Plain(v) == [tag |-> "plain", ref |-> None, lit |-> v]
Ref(id) == [tag |-> "node", ref |-> id, lit |-> <<>>]
\* the dict self.__dict__['_items'] of container id
ItemsDict(id) == [tag |-> "dict", ref |-> id, lit |-> <<>>]

\* ConfigItem.__init__
ConfigItem(name, value, comment) ==
    [kind |-> "I", items |-> <<>>, comment |-> comment, name |-> name, value |-> value]

\* ConfigContainer.__init__: _items is an (insertion-ordered) dict name -> object
ConfigContainer(comment) ==
    [kind |-> "C", items |-> <<>>, comment |-> comment, name |-> <<>>, value |-> Plain(<<>>)]

isConfigItem(h, id) == h[id].kind = "I"
isConfigContainer(h, id) == h[id].kind = "C"

Keys(d) == {d[i].name : i \in 1..Len(d)}
IndexOf(d, name) == CHOOSE i \in 1..Len(d) : d[i].name = name

\* d[name]
DictGet(d, name) == d[IndexOf(d, name)].id

\* d[name] = id: an existing key keeps its position, a new key goes last
DictSet(d, name, id) ==
    IF name \in Keys(d)
    THEN [d EXCEPT ![IndexOf(d, name)] = [name |-> name, id |-> id]]
    ELSE Append(d, [name |-> name, id |-> id])

\* ConfigContainer.__contains__
Contains(h, self, item) == item \in Keys(h[self].items)

\* ConfigContainer.__getitem__
GetItem(h, self, item) == DictGet(h[self].items, item)

\* as Unwrap, but the ConfigItem itself is returned
Unwrap_wrapper(h, item) == Ref(item)

\* line 144: item.value if isinstance(item, ConfigItem) else item
Unwrap(h, item) == IF isConfigItem(h, item) THEN h[item].value ELSE Ref(item)

\* ConfigContainer.__getattr__: the item's value, the container itself, or
\* AttributeError (ok = FALSE)
__getattr__(h, self, attr) ==
    IF ~Contains(h, self, attr) THEN [ok |-> FALSE, val |-> Plain(<<>>)]
    ELSE [ok |-> TRUE, val |-> Unwrap(h, GetItem(h, self, attr))]

\* as CreateItem, but the new item is not given its name
CreateItem_unnamed(h, self, attr, value) ==
    [Append(h, ConfigItem(<<>>, value, <<>>))
       EXCEPT ![self].items = DictSet(@, attr, Len(h) + 1)]

\* line 162: a new ConfigItem(name=attr, value=value), bound to attr
CreateItem(h, self, attr, value) ==
    [Append(h, ConfigItem(attr, value, <<>>))
       EXCEPT ![self].items = DictSet(@, attr, Len(h) + 1)]

RECURSIVE __setattr__(_, _, _, _)

\* line 159: self._items[attr].value = value.  On a ConfigItem this sets a plain
\* attribute; on a ConfigContainer it is another __setattr__ call.
SetValueOf(h, old, value) ==
    IF isConfigItem(h, old) THEN [h EXCEPT ![old].value = value]
    ELSE __setattr__(h, old, <<"value">>, value)

\* ConfigContainer.__setattr__; the result is the heap after the assignment
__setattr__(h, self, attr, value) ==
    IF value.tag = "node"
    THEN [h EXCEPT ![self].items = DictSet(@, attr, value.ref)]
    ELSE IF attr = <<"_comment">>
    THEN [h EXCEPT ![self].comment = value.lit]
    ELSE IF Contains(h, self, attr)
    THEN SetValueOf(h, GetItem(h, self, attr), value)
    ELSE CreateItem(h, self, attr, value)

\* the expression self.attr on a ConfigContainer: the instance attributes of
\* lines 122-123 are found first, __getattr__ is called for any other name
getattr(h, self, attr) ==
    IF attr = <<"_items">> THEN [ok |-> TRUE, val |-> ItemsDict(self)]
    ELSE IF attr = <<"_comment">> THEN [ok |-> TRUE, val |-> Plain(h[self].comment)]
    ELSE __getattr__(h, self, attr)

-----------------------------------------------------------------------------
(* _parse_config, one loop iteration at a time.  p is the record of the      *)
(* function's local variables and of the heap.                               *)

Raise(p, kind, line) ==
    [p EXCEPT !.status = "raised", !.error = [kind |-> kind, line |-> line]]

NoError == [kind |-> "", line |-> 0]

\* no attribute access made yet
NoCall == [op |-> "", self |-> None, attr |-> <<>>, value |-> Plain(<<>>),
           ret |-> [ok |-> FALSE, val |-> Plain(<<>>)]]

\* parents[-1] of lines 240-244 (None when parents is empty)
LastOf(parents) == IF parents = <<>> THEN None ELSE parents[Len(parents)].sec

\* as LatestParent, but parents[0]: the first container registered at `level`
LatestParent_first(secs, level) ==
    IF SelectSeq(secs, LAMBDA e : e.level = level) = <<>> THEN None
    ELSE SelectSeq(secs, LAMBDA e : e.level = level)[1].sec

\* as LatestParent, but every section that has a parent is put in the root
LatestParent_root(secs, level) ==
    IF SelectSeq(secs, LAMBDA e : e.level = level) = <<>> THEN None
    ELSE secs[1].sec

\* as LatestParent, but any container above the new section's level will do
LatestParent_anyLower(secs, level) ==
    LastOf(SelectSeq(secs, LAMBDA e : e.level <= level))

\* line 240: the containers registered at `level`, in insertion order
LatestParent(secs, level) == LastOf(SelectSeq(secs, LAMBDA e : e.level = level))

\* lines 241-246
AttachSection(p, secname, new, h1, secs, latest_parent) ==
    IF latest_parent = None
    THEN Raise(p, "subsection outside a parent section", p.lnum)
    ELSE [p EXCEPT !.heap = __setattr__(h1, latest_parent, secname, Ref(new)),
                   !.sections = secs,
                   !.current_section = new,
                   !.comment_lines = <<>>]

\* lines 237-240
NewSection(p, secname, sec_level, new, secs) ==
    AttachSection(p, secname, new,
                  Append(p.heap, ConfigContainer(Join(p.comment_lines, <<WS>>))),
                  secs, LatestParent(secs, sec_level - 1))

\* lines 233-246
SectionHeaderBranch(p, secname, sec_level) ==
    IF p.current_item_name # <<>>
    THEN Raise(p, "could not evaluate definition", p.lnum)
    ELSE NewSection(p, secname, sec_level, Len(p.heap) + 1,
                    Append(p.sections, [sec |-> Len(p.heap) + 1, level |-> sec_level]))

\* lines 248-253
CommentBranch(p, line) ==
    IF p.current_item_name # <<>>
    THEN Raise(p, "could not evaluate definition", p.lnum)
    ELSE [p EXCEPT !.comment_lines = Append(@, CommentText(line))]

\* as WhitespaceBranch, but a blank line forgets the comments collected
WhitespaceBranch_clearing(p) ==
    IF p.current_item_name # <<>>
    THEN Raise(p, "could not evaluate definition", p.lnum)
    ELSE [p EXCEPT !.comment_lines = <<>>]

\* lines 255-257
WhitespaceBranch(p) ==
    IF p.current_item_name # <<>>
    THEN Raise(p, "could not evaluate definition", p.lnum)
    ELSE p

\* lines 271-276 and 291-298: record the variable
RecordItem(p, name, val_eval) ==
    [p EXCEPT !.heap = __setattr__(
                  Append(p.heap, ConfigItem(name, Plain(val_eval),
                                            Join(p.comment_lines, <<WS>>))),
                  p.current_section, name, Ref(Len(p.heap) + 1)),
              !.comment_lines = <<>>,
              !.current_def_lines = <<>>,
              !.current_item_name = <<>>]

\* lines 268-280: e is the outcome of ast.literal_eval(val)
TryItemDef(p, item_name, val, e) ==
    IF e.ok THEN RecordItem(p, item_name, e.val)
    ELSE [p EXCEPT !.current_item_name = item_name,
                   !.current_def_lines = Append(@, val)]

\* as ItemDefBranch, but the name is looked up only once the value is complete
ItemDefBranch_lateCheck(p, item_name, val) ==
    IF p.current_item_name # <<>>
    THEN Raise(p, "could not evaluate definition", p.lnum)
    ELSE IF p.current_section = None
    THEN Raise(p, "item definition outside of a section", p.lnum)
    ELSE IF literal_eval(val).ok /\ Contains(p.heap, p.current_section, item_name)
    THEN Raise(p, "duplicate definition", p.lnum)
    ELSE TryItemDef(p, item_name, val, literal_eval(val))

\* lines 260-280
ItemDefBranch(p, item_name, val) ==
    IF p.current_item_name # <<>>
    THEN Raise(p, "could not evaluate definition", p.lnum)
    ELSE IF p.current_section = None
    THEN Raise(p, "item definition outside of a section", p.lnum)
    ELSE IF Contains(p.heap, p.current_section, item_name)
    THEN Raise(p, "duplicate definition", p.lnum)
    ELSE TryItemDef(p, item_name, val, literal_eval(val))

\* as JoinDefLines, but ' '.join
JoinDefLines_spaced(def_lines) == Join(def_lines, <<WS>>)

\* ''.join(current_def_lines), line 289
JoinDefLines(def_lines) == Join(def_lines, <<>>)

\* lines 288-300: e is the outcome of ast.literal_eval(val_new)
TryFinish(p, e) == IF e.ok THEN RecordItem(p, p.current_item_name, e.val) ELSE p

\* li.strip(), line 284
StripLine(line) == Strip(line)

\* lines 282-300
OtherBranch(p, line) ==
    IF p.current_item_name = <<>>
    THEN Raise(p, "syntax error", p.lnum)
    ELSE TryFinish([p EXCEPT !.current_def_lines = Append(@, StripLine(line))],
                   literal_eval(JoinDefLines(Append(p.current_def_lines, StripLine(line)))))

\* the if/elif chain of lines 233-282
Dispatch(p, line, sec_def, itdef) ==
    IF sec_def.ok THEN SectionHeaderBranch(p, sec_def.name, sec_def.level)
    ELSE IF _is_comment(line) THEN CommentBranch(p, line)
    ELSE IF _is_whitespace(line) THEN WhitespaceBranch(p)
    ELSE IF itdef.ok THEN ItemDefBranch(p, itdef.name, itdef.val)
    ELSE OtherBranch(p, line)

\* the body of the for loop, lines 231-300
ParseLine(p, line) ==
    Dispatch([p EXCEPT !.lnum = @ + 1, !.li = line], line,
             _parse_section_header(line), _parse_item_def(line))

\* as EndOfInput, but an unfinished definition is dropped at the end of input
EndOfInput_dropping(p) == [p EXCEPT !.status = "returned"]

\* lines 302-305
EndOfInput(p) ==
    IF p.current_item_name # <<>>
    THEN Raise(p, "could not evaluate definition", p.lnum)
    ELSE [p EXCEPT !.status = "returned"]

\* lines 219-226: the locals before the loop; the root is a new object of heap h
ParserStart(h) ==
    [heap |-> Append(h, ConfigContainer(<<>>)),
     config |-> Len(h) + 1,
     sections |-> <<[sec |-> Len(h) + 1, level |-> 0]>>,
     comment_lines |-> <<>>,
     current_section |-> None,
     current_item_name |-> <<>>,
     current_def_lines |-> <<>>,
     lnum |-> 0,
     li |-> <<>>,
     status |-> "running",
     error |-> NoError]

RECURSIVE ParseLoop(_, _)
\* the for loop of line 231, left early by an exception
ParseLoop(p, lines) ==
    IF lines = <<>> \/ p.status # "running" THEN p
    ELSE ParseLoop(ParseLine(p, Head(lines)), Tail(lines))

AfterLoop(p) == IF p.status = "running" THEN EndOfInput(p) ELSE p

\* _parse_config(lines), allocating in heap h
_parse_config(h, lines) == AfterLoop(ParseLoop(ParserStart(h), lines))

-----------------------------------------------------------------------------
(* update_config, one loop iteration at a time.  a is the record of the       *)
(* arguments; u the record of the heap, the positions sec_i in cfg_new's      *)
(* items and it_i in sec's items (0 outside the inner loop), sec_old, the     *)
(* outcome and the warnings logged.                                           *)

\* a bool given as create_new_items / a list of section names given as it
Uniform(b) == [list |-> FALSE, flag |-> b, names |-> <<>>]
Listed(names) == [list |-> TRUE, flag |-> FALSE, names |-> names]

Elements(seq) == {seq[i] : i \in 1..Len(seq)}

\* as CreateNewItemsFor, but a list is used as the flag itself: a non-empty
\* list is true
CreateNewItemsFor_truthy(a, secname) ==
    IF a.create_new_items.list THEN a.create_new_items.names # <<>>
    ELSE a.create_new_items.flag

\* _create_new_items, lines 328-331
CreateNewItemsFor(a, secname) ==
    IF a.create_new_items.list THEN secname \in Elements(a.create_new_items.names)
    ELSE a.create_new_items.flag

UpdRaise(u, kind) == [u EXCEPT !.status = "raised", !.error = kind]

\* logger.warning, lines 349 and 354
Warn(u, kind, secname, itname) ==
    [u EXCEPT !.warnings = Append(@, [kind |-> kind, sec |-> secname, item |-> itname])]

\* the pair the outer loop is at, line 327
CurSection(u, a) == u.heap[a.cfg_new].items[u.sec_i]

\* the pair the inner loop is at, line 337
CurItem(u, a) == u.heap[CurSection(u, a).id].items[u.it_i]

\* the outer loop goes on to its next pair
NextSection(u) == [u EXCEPT !.sec_i = @ + 1, !.it_i = 0, !.sec_old = None]

\* obj._comment = comment, line 336: __setattr__ on a container, a plain
\* attribute on an item
SetComment(h, obj, comment) ==
    IF isConfigContainer(h, obj) THEN __setattr__(h, obj, <<"_comment">>, Plain(comment))
    ELSE [h EXCEPT ![obj].comment = comment]

\* line 337: the inner loop starts on sec, which must be iterable
EnterSection(u, sec, sec_old) ==
    IF ~isConfigContainer(u.heap, sec) THEN UpdRaise(u, "TypeError")
    ELSE IF u.heap[sec].items = <<>> THEN NextSection(u)
    ELSE [u EXCEPT !.it_i = 1, !.sec_old = sec_old]

\* lines 334-337
ExistingSection(u, a, sec, sec_old) ==
    EnterSection(
        IF a.update_comments
        THEN [u EXCEPT !.heap = SetComment(@, sec_old, u.heap[sec].comment)]
        ELSE u,
        sec, sec_old)

\* as UpdateSection, but a section the target lacks is created whatever
\* create_new_sections says
UpdateSection_always(u, a, secname, sec) ==
    IF Contains(u.heap, a.cfg, secname)
    THEN ExistingSection(u, a, sec, GetItem(u.heap, a.cfg, secname))
    ELSE NextSection([u EXCEPT !.heap = __setattr__(@, a.cfg, secname, Ref(sec))])

\* lines 332-354 for the pair (secname, sec)
UpdateSection(u, a, secname, sec) ==
    IF Contains(u.heap, a.cfg, secname)
    THEN ExistingSection(u, a, sec, GetItem(u.heap, a.cfg, secname))
    ELSE IF a.create_new_sections
    THEN NextSection([u EXCEPT !.heap = __setattr__(@, a.cfg, secname, Ref(sec))])
    ELSE NextSection(Warn(u, "unknown config section", secname, <<>>))

\* the expression obj.value of line 344
ValueAttr(h, obj) ==
    IF isConfigItem(h, obj) THEN [ok |-> TRUE, val |-> h[obj].value]
    ELSE getattr(h, obj, <<"value">>)

\* as CopyValue, but the value read is not stored
CopyValue_skip(u, item_old, v) ==
    IF ~v.ok THEN UpdRaise(u, "AttributeError") ELSE u

\* lines 343-344: item_old.value = item.value, v the outcome of item.value
CopyValue(u, item_old, v) ==
    IF ~v.ok THEN UpdRaise(u, "AttributeError")
    ELSE [u EXCEPT !.heap = SetValueOf(@, item_old, v.val)]

\* lines 338-349 for the pair (itname, item)
UpdateItem(u, a, secname, itname, item) ==
    IF ~isConfigContainer(u.heap, u.sec_old) THEN UpdRaise(u, "TypeError")
    ELSE IF Contains(u.heap, u.sec_old, itname)
    THEN IF a.update_comments
         THEN [u EXCEPT !.heap = __setattr__(@, u.sec_old, itname, Ref(item))]
         ELSE CopyValue(u, GetItem(u.heap, u.sec_old, itname), ValueAttr(u.heap, item))
    ELSE IF CreateNewItemsFor(a, secname)
    THEN [u EXCEPT !.heap = __setattr__(@, u.sec_old, itname, Ref(item))]
    ELSE Warn(u, "unknown config item", secname, itname)

\* line 337: the inner loop takes its next pair, or ends; a dict that changed
\* size under the iteration makes it raise. n is the size before the iteration.
NextItem(u, sec, n) ==
    IF u.status # "running" THEN u
    ELSE IF Len(u.heap[sec].items) # n THEN UpdRaise(u, "RuntimeError")
    ELSE IF u.it_i < n THEN [u EXCEPT !.it_i = @ + 1]
    ELSE NextSection(u)

\* one iteration of the outer loop up to the start of the inner loop
SectionStep(u, a) == UpdateSection(u, a, CurSection(u, a).name, CurSection(u, a).id)

\* one iteration of the inner loop
ItemStep(u, a) ==
    NextItem(UpdateItem(u, a, CurSection(u, a).name, CurItem(u, a).name, CurItem(u, a).id),
             CurSection(u, a).id, Len(u.heap[CurSection(u, a).id].items))

-----------------------------------------------------------------------------
(* Serializer *)

\* ConfigItem.item_def
item_def(h, item) == h[item].name \o <<WS, "=", WS>> \o pformat(h[item].value.lit)

\* the header line _dump_section yields for a container, line 365
SectionLine(item_name) == <<"[">> \o item_name \o <<"]">>

RECURSIVE DumpItems(_, _)

\* the lines _dump_section(sec) yields
_dump_section(h, sec) == DumpItems(h, h[sec].items)

\* lines 364-368, for one (item_name, item) of the loop
DumpItem(h, item_name, item) ==
    IF isConfigContainer(h, item)
    THEN <<SectionLine(item_name)>> \o _dump_section(h, item)
    ELSE <<item_def(h, item)>>

\* the loop of line 363 over the pairs d
DumpItems(h, d) ==
    IF d = <<>> THEN <<>>
    ELSE DumpItem(h, d[1].name, d[1].id) \o DumpItems(h, Tail(d))

\* dump_config: '\n'.join(...)
dump_config(h, cfg) == Join(_dump_section(h, cfg), <<NL>>)

RECURSIVE splitlines(_)

SplitAt(text, n) == <<Take(text, n)>> \o splitlines(Drop(text, n + 1))

\* str.splitlines(), line 206
splitlines(text) ==
    IF text = <<>> THEN <<>> ELSE SplitAt(text, PrefixLen(text, Tokens \ {NL}))

-----------------------------------------------------------------------------
(* Inputs *)

Line_a     == <<"[", "a", "]">>
Line_b     == <<WS, "[", "b", "]", WS>>
Line_aa    == <<"[", "[", "a", "]", "]">>
Line_bb    == <<"[", "[", "b", "]", "]">>
Line_aaa   == <<"[", "[", "[", "a", "]", "]", "]">>
Line_bad   == <<"[", "[", "a", "]">>
Line_x1    == <<"x", WS, "=", WS, "1">>
Line_y12   == <<WS, "y", "=", "[", "1", WS, ",", "2", "]", WS>>
Line_xopen == <<"x", WS, "=", WS, "[", "1", ",">>
Line_yopen == <<"y", WS, "=", WS, "[", "1">>
Line_cont  == <<"1", ",">>
Line_close == <<WS, "2", "]", WS>>
Line_c1    == <<"#", WS, "a", WS, "b">>
Line_c2    == <<WS, ";", "x">>
Line_empty == <<>>

\* the lines an input is made of
Lines ==
    {Line_a, Line_b, Line_aa, Line_bb, Line_aaa, Line_bad, Line_x1, Line_y12,
     Line_xopen, Line_yopen, Line_cont, Line_close, Line_c1, Line_c2, Line_empty}

-----------------------------------------------------------------------------
(* The parser as a state machine: one action per branch of the loop body *)

PState ==
    [heap |-> heap, config |-> config, sections |-> sections,
     comment_lines |-> comment_lines, current_section |-> current_section,
     current_item_name |-> current_item_name,
     current_def_lines |-> current_def_lines,
     lnum |-> lnum, li |-> li, status |-> status, error |-> error]

Become(p) ==
    /\ heap' = p.heap
    /\ config' = p.config
    /\ sections' = p.sections
    /\ comment_lines' = p.comment_lines
    /\ current_section' = p.current_section
    /\ current_item_name' = p.current_item_name
    /\ current_def_lines' = p.current_def_lines
    /\ lnum' = p.lnum
    /\ li' = p.li
    /\ status' = p.status
    /\ error' = p.error
    /\ UNCHANGED <<callerVars, mergeVars>>

\* the locals of _parse_config and the heap are those of p
ParserIs(p) ==
    /\ heap = p.heap
    /\ config = p.config
    /\ sections = p.sections
    /\ comment_lines = p.comment_lines
    /\ current_section = p.current_section
    /\ current_item_name = p.current_item_name
    /\ current_def_lines = p.current_def_lines
    /\ lnum = p.lnum
    /\ li = p.li
    /\ status = p.status
    /\ error = p.error

\* update_config has not been called
NoArgs ==
    [cfg |-> None, cfg_new |-> None, create_new_sections |-> FALSE,
     create_new_items |-> Uniform(FALSE), update_comments |-> FALSE]

NoMerge ==
    /\ args = NoArgs
    /\ upd = [sec_i |-> 0, it_i |-> 0, sec_old |-> None, status |-> "idle", error |-> ""]
    /\ warnings = <<>>
    /\ heap0 = <<>>

Init ==
    /\ ParserIs(ParserStart(<<>>))
    /\ call = NoCall
    /\ nwrites = 0
    /\ NoMerge

\* the loop reads another line, and the line takes the branch `kind`
Reads(line, kind) == status = "running" /\ lnum < MaxLines /\ LineKind(line) = kind

SectionHeaderLine ==
    \E line \in Lines : Reads(line, "header") /\ Become(ParseLine(PState, line))

CommentLine ==
    \E line \in Lines : Reads(line, "comment") /\ Become(ParseLine(PState, line))

WhitespaceLine ==
    \E line \in Lines : Reads(line, "whitespace") /\ Become(ParseLine(PState, line))

ItemDefLine ==
    \E line \in Lines : Reads(line, "itemdef") /\ Become(ParseLine(PState, line))

OtherLine ==
    \E line \in Lines : Reads(line, "other") /\ Become(ParseLine(PState, line))

Return ==
    /\ status = "running"
    /\ Become(EndOfInput(PState))

Next ==
    \/ SectionHeaderLine
    \/ CommentLine
    \/ WhitespaceLine
    \/ ItemDefLine
    \/ OtherLine
    \/ Return

Spec == Init /\ [][Next]_vars

-----------------------------------------------------------------------------
(* A caller reading and assigning attributes of the containers of a parsed    *)
(* tree: c.n and c.n = v                                                      *)

\* [a] / # a b / x = 1 / [[b]] / y=[1 ,2]
TreeInput1 == <<Line_a, Line_c1, Line_x1, Line_bb, Line_y12>>
\* [b] / [[value]] / x = 1
TreeInput2 == <<Line_b, <<"[", "[", "value", "]", "]">>, Line_x1>>
TreeInputs == {TreeInput1, TreeInput2}

\* the names a caller uses
AttrNames == {<<"x">>, <<"y">>, <<"b">>, <<"value">>, <<"_comment">>, <<"_items">>}

\* the plain values a caller assigns
PlainValues == {<<"2">>}

Containers(h) == {id \in 1..Len(h) : isConfigContainer(h, id)}

InitTree ==
    /\ \E lines \in TreeInputs : ParserIs(_parse_config(<<>>, lines))
    /\ call = NoCall
    /\ nwrites = 0
    /\ NoMerge

\* ret = self.attr
GetAttr ==
    \E self \in Containers(heap), attr \in AttrNames :
        /\ call' = [op |-> "get", self |-> self, attr |-> attr, value |-> Plain(<<>>),
                    ret |-> getattr(heap, self, attr)]
        /\ UNCHANGED <<heap, parserVars, nwrites, mergeVars>>

\* self.attr = value, for a plain value
SetAttr ==
    \E self \in Containers(heap), attr \in AttrNames, v \in PlainValues :
        /\ nwrites < MaxWrites
        /\ heap' = __setattr__(heap, self, attr, Plain(v))
        /\ call' = [op |-> "set", self |-> self, attr |-> attr, value |-> Plain(v),
                    ret |-> [ok |-> TRUE, val |-> Plain(<<>>)]]
        /\ nwrites' = nwrites + 1
        /\ UNCHANGED <<parserVars, mergeVars>>

NextTree ==
    \/ GetAttr
    \/ SetAttr

SpecTree == InitTree /\ [][NextTree]_vars

-----------------------------------------------------------------------------
(* update_config(cfg, cfg_new, ...) on two parsed trees, one action per loop  *)
(* iteration                                                                  *)

\* [a] / # a b / x = 1 / [b]
MergeInput1 == <<Line_a, Line_c1, Line_x1, Line_b>>
\* [a] / y=[1 ,2] / [b] / ;x / x = [1, / 2]
MergeInput2 == <<Line_a, Line_y12, Line_b, Line_c2, Line_xopen, Line_close>>
\* [a] / x = 1 / [[b]] / y=[1 ,2]
MergeInput3 == <<Line_a, Line_x1, Line_bb, Line_y12>>
\* # a b / [a] / x = [1, / 2]
MergeInput4 == <<Line_c1, Line_a, Line_xopen, Line_close>>
MergeInputs == {MergeInput1, MergeInput2, MergeInput3, MergeInput4}

\* the values given as create_new_items
CreateNewItemsArgs ==
    {Uniform(TRUE), Uniform(FALSE), Listed(<<>>), Listed(<<<<"a">>>>), Listed(<<<<"b">>>>)}

\* both trees parsed, the target first (its root is object 1)
ParseBoth(target, source) == _parse_config(_parse_config(<<>>, target).heap, source)

UState ==
    [heap |-> heap, sec_i |-> upd.sec_i, it_i |-> upd.it_i, sec_old |-> upd.sec_old,
     status |-> upd.status, error |-> upd.error, warnings |-> warnings]

UBecome(u) ==
    /\ heap' = u.heap
    /\ upd' = [sec_i |-> u.sec_i, it_i |-> u.it_i, sec_old |-> u.sec_old,
               status |-> u.status, error |-> u.error]
    /\ warnings' = u.warnings
    /\ UNCHANGED <<args, heap0, parserVars, callerVars>>

InitMerge ==
    /\ \E target \in MergeInputs, source \in MergeInputs :
          ParserIs(ParseBoth(target, source))
    /\ call = NoCall
    /\ nwrites = 0
    /\ \E cs \in BOOLEAN, ci \in CreateNewItemsArgs, uc \in BOOLEAN :
          args = [cfg |-> 1, cfg_new |-> config, create_new_sections |-> cs,
                  create_new_items |-> ci, update_comments |-> uc]
    /\ upd = [sec_i |-> 1, it_i |-> 0, sec_old |-> None, status |-> "running", error |-> ""]
    /\ warnings = <<>>
    /\ heap0 = heap

\* the outer loop takes the next section of cfg_new
UpdateSectionStep ==
    /\ upd.status = "running"
    /\ upd.it_i = 0
    /\ upd.sec_i <= Len(heap[args.cfg_new].items)
    /\ UBecome(SectionStep(UState, args))

\* the inner loop takes the next item of the section
UpdateItemStep ==
    /\ upd.status = "running"
    /\ upd.it_i >= 1
    /\ UBecome(ItemStep(UState, args))

\* the outer loop is exhausted: update_config returns
UpdateReturn ==
    /\ upd.status = "running"
    /\ upd.it_i = 0
    /\ upd.sec_i > Len(heap[args.cfg_new].items)
    /\ upd' = [upd EXCEPT !.status = "returned"]
    /\ UNCHANGED <<heap, args, warnings, heap0, parserVars, callerVars>>

NextMerge ==
    \/ UpdateSectionStep
    \/ UpdateItemStep
    \/ UpdateReturn

SpecMerge == InitMerge /\ [][NextMerge]_vars

-----------------------------------------------------------------------------
(* Properties of the parser and the serializer *)

\* the tree config was returned by _parse_config
Returned == status = "returned"

\* a step of the loop: the line li' was read and numbered lnum'
ReadsALine == status = "running" /\ lnum' = lnum + 1

\* an exception ends _parse_config: nothing is returned afterwards
RaisedIsFinal == status = "raised" => status' = "raised"

RECURSIVE SameTree(_, _, _, _)
\* containers c1 of heap h1 and c2 of heap h2 bind the same names, to items of
\* the same value or to containers that are again the same (comments aside)
SameTree(h1, c1, h2, c2) ==
    /\ Keys(h1[c1].items) = Keys(h2[c2].items)
    /\ \A n \in Keys(h1[c1].items) :
          LET i1 == DictGet(h1[c1].items, n)
              i2 == DictGet(h2[c2].items, n)
          IN  /\ h1[i1].kind = h2[i2].kind
              /\ isConfigItem(h1, i1) => h1[i1].value = h2[i2].value
              /\ isConfigContainer(h1, i1) => SameTree(h1, i1, h2, i2)

\* _parse_config(dump_config(t).splitlines()) for the tree t = config
Reparsed == _parse_config(<<>>, splitlines(dump_config(heap, config)))

\* C1: parsing the dump of a returned tree succeeds and gives a tree with the
\* same sections at the same nesting positions, the same item names in every
\* section and the same item values.
C1_RoundTrip ==
    Returned => /\ Reparsed.status = "returned"
                /\ SameTree(heap, config, Reparsed.heap, Reparsed.config)

\* C2: dumping the reparsed dump of a returned tree gives the dump again.
C2_DumpIdempotent ==
    Returned => /\ Reparsed.status = "returned"
                /\ dump_config(Reparsed.heap, Reparsed.config) = dump_config(heap, config)

\* d opening brackets, the name, d closing brackets
Brackets(d, c) == [i \in 1..d |-> c]
HeaderLine(name, d) == Brackets(d, "[") \o name \o Brackets(d, "]")

RECURSIVE LinesAtDepth(_, _, _)
\* the lines of the children d of a container at depth depth - 1, in insertion
\* order, each container's header having `depth` bracket pairs
LinesAtDepth(h, d, depth) ==
    IF d = <<>> THEN <<>>
    ELSE (IF isConfigContainer(h, d[1].id)
          THEN <<HeaderLine(d[1].name, depth)>>
               \o LinesAtDepth(h, h[d[1].id].items, depth + 1)
          ELSE <<item_def(h, d[1].id)>>)
         \o LinesAtDepth(h, Tail(d), depth)

\* C3: the header of a container at nesting depth d is dumped with d bracket
\* pairs, and children are dumped in insertion order.
C3_HeaderDepth ==
    Returned => _dump_section(heap, config) = LinesAtDepth(heap, heap[config].items, 1)

\* the name of the item definition on line `line` is bound in the section that
\* is current before the line is read
DefinesBoundName(line) ==
    /\ LineKind(line) = "itemdef"
    /\ current_section # None
    /\ _parse_item_def(line).name \in Keys(heap[current_section].items)

\* C4: an item definition whose name is already bound in the current section
\* raises an error carrying the number of that line, whether or not its value
\* is complete on the line; nothing is returned; and the duplicate-definition
\* error is raised for no other line.
C4_DuplicateItem ==
    [][/\ (ReadsALine /\ DefinesBoundName(li'))
            => (status' = "raised" /\ error'.line = lnum + 1)
       /\ (ReadsALine /\ status' = "raised" /\ error'.kind = "duplicate definition")
            => DefinesBoundName(li')
       /\ RaisedIsFinal]_vars

\* a duplicate definition whose value would need continuation lines was refused
C4_Witness ==
    /\ status = "raised"
    /\ error = [kind |-> "duplicate definition", line |-> lnum]
    /\ li = Line_xopen
    /\ ~literal_eval(_parse_item_def(li).val).ok

\* line `line` is a header of level N >= 2 and no container of level N-1 has
\* been opened before it
HeaderWithoutParent(line) ==
    /\ LineKind(line) = "header"
    /\ _parse_section_header(line).level >= 2
    /\ \A i \in 1..Len(sections) :
          sections[i].level # _parse_section_header(line).level - 1

\* C5: a header of level N >= 2 read when no container of level N-1 has been
\* opened raises an error carrying the number of that line; the error is
\* raised for no other line, so never for a header of level 1.
C5_SectionWithoutParent ==
    [][/\ (ReadsALine /\ HeaderWithoutParent(li'))
            => (status' = "raised" /\ error'.line = lnum + 1)
       /\ (ReadsALine /\ status' = "raised"
             /\ error'.kind = "subsection outside a parent section")
            => HeaderWithoutParent(li')]_vars

\* [[[a]]] directly after a level-1 header was refused
C5_Witness ==
    /\ status = "raised"
    /\ error = [kind |-> "subsection outside a parent section", line |-> lnum]
    /\ li = Line_aaa
    /\ \E i \in 1..Len(sections) : sections[i].level = 1

RECURSIVE Concat(_)
\* the fragments written one after the other, nothing in between
Concat(frags) == IF frags = <<>> THEN <<>> ELSE Head(frags) \o Concat(Tail(frags))

\* container sec binds name to a ConfigItem of that name holding value v
BindsItem(h, sec, name, v) ==
    /\ name \in Keys(h[sec].items)
    /\ isConfigItem(h, DictGet(h[sec].items, name))
    /\ h[DictGet(h[sec].items, name)].name = name
    /\ h[DictGet(h[sec].items, name)].value = Plain(v)

\* an accepted item definition whose remainder does not evaluate
StartsLiteral(line) ==
    /\ LineKind(line) = "itemdef"
    /\ current_item_name = <<>>
    /\ current_section # None
    /\ ~DefinesBoundName(line)
    /\ ~literal_eval(_parse_item_def(line).val).ok

\* the text of the pending literal once the line is appended
Pending(line) == Concat(current_def_lines) \o Strip(line)

\* C6: a remainder that does not evaluate starts a pending literal; each
\* following 'other' line is stripped and appended; at the first line where the
\* direct concatenation evaluates the item is bound, with that value, under the
\* name of the definition line in the section current at that line, and the
\* pending state is cleared.
C6_MultiLineLiteral ==
    [][/\ (ReadsALine /\ StartsLiteral(li'))
            => /\ current_item_name' = _parse_item_def(li').name
               /\ current_def_lines' = <<_parse_item_def(li').val>>
               /\ UNCHANGED <<heap, current_section>>
               /\ status' = "running"
       /\ (ReadsALine /\ current_item_name # <<>> /\ LineKind(li') = "other")
            => /\ status' = "running"
               /\ current_section' = current_section
               /\ IF literal_eval(Pending(li')).ok
                  THEN /\ BindsItem(heap', current_section, current_item_name,
                                    literal_eval(Pending(li')).val)
                       /\ current_item_name' = <<>>
                       /\ current_def_lines' = <<>>
                  ELSE /\ heap' = heap
                       /\ current_item_name' = current_item_name
                       /\ current_def_lines' = Append(current_def_lines, Strip(li'))
                       /\ Concat(current_def_lines') = Pending(li')]_vars

\* x = [1, continued by 1, and 2] became the item x = [1, 1, 2]
C6_Witness ==
    /\ status = "running"
    /\ li = Line_close
    /\ current_item_name = <<>>
    /\ current_section # None
    /\ BindsItem(heap, current_section, <<"x">>, <<"[", "1", ",", "1", ",", "2", "]">>)

-----------------------------------------------------------------------------
(* Properties of attribute access *)

\* the step reads c.n / assigns c.n = v
IsGet(c, n) == call'.op = "get" /\ call'.self = c /\ call'.attr = n
IsSet(c, n, v) ==
    /\ nwrites' = nwrites + 1
    /\ call'.op = "set" /\ call'.self = c /\ call'.attr = n /\ call'.value = Plain(v)

Bound(h, c, n) == n \in Keys(h[c].items)
BoundTo(h, c, n) == DictGet(h[c].items, n)
BoundToItem(h, c, n) == Bound(h, c, n) /\ isConfigItem(h, BoundTo(h, c, n))
BoundToContainer(h, c, n) == Bound(h, c, n) /\ isConfigContainer(h, BoundTo(h, c, n))

\* what the claim says reading c.n gives
ReadsAsClaimed(c, n) ==
    /\ BoundToItem(heap, c, n) =>
          call'.ret = [ok |-> TRUE, val |-> heap[BoundTo(heap, c, n)].value]
    /\ BoundToContainer(heap, c, n) =>
          call'.ret = [ok |-> TRUE, val |-> Ref(BoundTo(heap, c, n))]
    /\ ~Bound(heap, c, n) => ~call'.ret.ok
    /\ heap' = heap

\* the names normal attribute lookup finds on a container before __getattr__ is
\* asked (within AttrNames)
InstanceAttrs == {<<"_items">>, <<"_comment">>}

\* C7 as claimed: for every container c and name n, reading c.n gives the
\* item's value, the bound container, or an attribute error when n is
\* unbound, and leaves the tree unchanged.
C7_ReadAnyName ==
    [][\A c \in Containers(heap), n \in AttrNames : IsGet(c, n) => ReadsAsClaimed(c, n)]_vars

\* C7 as amended: the same, for every name n that is not an instance attribute
\* of the container (_items, _comment).
C7_AttributeRead ==
    [][\A c \in Containers(heap), n \in AttrNames \ InstanceAttrs :
          IsGet(c, n) => ReadsAsClaimed(c, n)]_vars

\* all three outcomes were seen: x gave the value 1 of the item, b gave the
\* container, y was unbound in the same container
C7_Witness ==
    /\ call.op = "get"
    /\ call.attr = <<"x">>
    /\ call.ret = [ok |-> TRUE, val |-> Plain(<<"1">>)]
    /\ BoundToContainer(heap, call.self, <<"b">>)
    /\ ~getattr(heap, call.self, <<"y">>).ok
    /\ getattr(heap, call.self, <<"b">>).val.tag = "node"

\* C8: assigning a plain value v to a name n bound to a sub-container of c
\* binds n in c to a new item of value v, so that c.n reads v, and leaves the
\* former sub-container as it was.
C8_ShadowContainer ==
    [][\A c \in Containers(heap), n \in AttrNames, v \in PlainValues :
          (IsSet(c, n, v) /\ BoundToContainer(heap, c, n))
            => /\ BoundToItem(heap', c, n)
               /\ heap'[BoundTo(heap', c, n)].value = Plain(v)
               /\ getattr(heap', c, n) = [ok |-> TRUE, val |-> Plain(v)]
               /\ heap'[BoundTo(heap, c, n)] = heap[BoundTo(heap, c, n)]]_vars

\* what the claim says assigning c.n = v does
WritesAsClaimed(c, n, v) ==
    /\ BoundToItem(heap, c, n) =>
          /\ heap'[c].items = heap[c].items
          /\ heap'[BoundTo(heap, c, n)] = [heap[BoundTo(heap, c, n)] EXCEPT !.value = Plain(v)]
    /\ ~Bound(heap, c, n) =>
          /\ Len(heap'[c].items) = Len(heap[c].items) + 1
          /\ SubSeq(heap'[c].items, 1, Len(heap[c].items)) = heap[c].items
          /\ heap'[c].items[Len(heap'[c].items)].name = n
          /\ heap'[BoundTo(heap', c, n)] = ConfigItem(n, Plain(v), <<>>)
          /\ BoundTo(heap', c, n) \notin DOMAIN heap
    /\ (BoundToItem(heap, c, n) \/ ~Bound(heap, c, n)) =>
          getattr(heap', c, n) = [ok |-> TRUE, val |-> Plain(v)]

\* C9 as claimed: for every name n, a plain value assigned to a name bound to
\* an item becomes that item's value, comment, bindings and order unchanged;
\* assigned to an unbound name it is bound last, to a new item of that name
\* with an empty comment; reading c.n then gives v.
C9_WriteAnyName ==
    [][\A c \in Containers(heap), n \in AttrNames, v \in PlainValues :
          IsSet(c, n, v) => WritesAsClaimed(c, n, v)]_vars

\* C9 as amended: the same, for every name n that is not an instance attribute
\* of the container (_items, _comment).
C9_AttributeWrite ==
    [][\A c \in Containers(heap), n \in AttrNames \ InstanceAttrs, v \in PlainValues :
          IsSet(c, n, v) => WritesAsClaimed(c, n, v)]_vars

\* x, parsed with the comment "a b", was assigned 2 and kept its comment, and
\* a second assignment created y after it
C9_Witness ==
    /\ nwrites = 2
    /\ call.op = "set"
    /\ call.attr = <<"y">>
    /\ BoundToItem(heap, call.self, <<"x">>)
    /\ heap[BoundTo(heap, call.self, <<"x">>)].value = Plain(<<"2">>)
    /\ heap[BoundTo(heap, call.self, <<"x">>)].comment = <<"a", WS, "b">>
    /\ heap[call.self].items[Len(heap[call.self].items)].name = <<"y">>
    /\ getattr(heap, call.self, <<"y">>) = [ok |-> TRUE, val |-> call.value]

-----------------------------------------------------------------------------
(* Properties of update_config *)

\* the step is an iteration of the inner loop
InnerIteration == upd.status = "running" /\ upd.it_i >= 1 /\ upd' # upd

\* the source section and the pair of it that the inner loop is at
SrcSection == heap[args.cfg_new].items[upd.sec_i]
SrcItem == heap[SrcSection.id].items[upd.it_i]

\* the inner loop is at a pair whose name the target section does not bind
AbsentFromTarget ==
    /\ isConfigContainer(heap, upd.sec_old)
    /\ SrcItem.name \notin Keys(heap[upd.sec_old].items)

\* create_new_items is true, or a list containing the section's name
CreationAllowed ==
    \/ ~args.create_new_items.list /\ args.create_new_items.flag
    \/ /\ args.create_new_items.list
       /\ \E i \in 1..Len(args.create_new_items.names) :
             args.create_new_items.names[i] = SrcSection.name

\* the loops go on with the pair after the current one
GoesOn ==
    /\ upd'.status = "running"
    /\ IF upd.it_i < Len(heap[SrcSection.id].items)
       THEN upd'.sec_i = upd.sec_i /\ upd'.it_i = upd.it_i + 1
       ELSE upd'.sec_i = upd.sec_i + 1 /\ upd'.it_i = 0

\* C10: for a section in both trees, a source item absent from the target
\* section is created in the target exactly when create_new_items is true or
\* lists the section; otherwise the target is unchanged and a warning is
\* logged; in both cases nothing is raised and the loops go on.
C10_ItemCreationPolicy ==
    [][(InnerIteration /\ AbsentFromTarget)
          => /\ CreationAllowed =>
                  /\ SrcItem.name \in Keys(heap'[upd.sec_old].items)
                  /\ DictGet(heap'[upd.sec_old].items, SrcItem.name) = SrcItem.id
                  /\ heap'[SrcItem.id] = heap[SrcItem.id]
                  /\ warnings' = warnings
             /\ ~CreationAllowed =>
                  /\ heap' = heap
                  /\ warnings' = Append(warnings, [kind |-> "unknown config item",
                                                   sec |-> SrcSection.name,
                                                   item |-> SrcItem.name])
             /\ GoesOn]_vars

\* create_new_items = ['b']: y of section a was refused with a warning, x of
\* section b was created, and update_config returned
C10_Witness ==
    /\ upd.status = "returned"
    /\ args.create_new_items = Listed(<<<<"b">>>>)
    /\ warnings = <<[kind |-> "unknown config item", sec |-> <<"a">>, item |-> <<"y">>]>>
    /\ ~Bound(heap, BoundTo(heap, args.cfg, <<"a">>), <<"y">>)
    /\ BoundToItem(heap, BoundTo(heap, args.cfg, <<"b">>), <<"x">>)
    /\ heap[BoundTo(heap, BoundTo(heap, args.cfg, <<"b">>), <<"x">>)].value
          = Plain(<<"[", "1", ",", "2", "]">>)

\* the step is an iteration of the outer loop
OuterIteration ==
    /\ upd.status = "running"
    /\ upd.it_i = 0
    /\ upd.sec_i <= Len(heap[args.cfg_new].items)
    /\ upd' # upd

\* update_config has returned
Merged == upd.status = "returned"

\* the top-level names of the source that the target did not bind at the call
NewSections == Keys(heap0[args.cfg_new].items) \ Keys(heap0[args.cfg].items)

\* at return, the target binds n to a container with the items and values that
\* the source's section n had at the call
SectionCopied(n) ==
    /\ BoundToContainer(heap, args.cfg, n)
    /\ SameTree(heap, BoundTo(heap, args.cfg, n),
                heap0, BoundTo(heap0, args.cfg_new, n))

\* C11: a top-level section of the source that the target lacks is in the
\* target after update_config, with all its items and the same values, exactly
\* when create_new_sections is true; when it is false the iteration on that
\* section changes nothing and logs a warning; in both cases the outer loop
\* goes on with the next section.
C11_SectionCreationPolicy ==
    /\ [](Merged => \A n \in NewSections :
                        IF args.create_new_sections THEN SectionCopied(n)
                        ELSE ~Bound(heap, args.cfg, n))
    /\ [][(OuterIteration /\ ~Bound(heap, args.cfg, SrcSection.name))
             => /\ args.create_new_sections =>
                     /\ BoundTo(heap', args.cfg, SrcSection.name) = SrcSection.id
                     /\ \A n \in Keys(heap[args.cfg].items) :
                           /\ Bound(heap', args.cfg, n)
                           /\ BoundTo(heap', args.cfg, n) = BoundTo(heap, args.cfg, n)
                           /\ heap'[BoundTo(heap, args.cfg, n)] = heap[BoundTo(heap, args.cfg, n)]
                     /\ warnings' = warnings
                /\ ~args.create_new_sections =>
                     /\ heap' = heap
                     /\ warnings' = Append(warnings, [kind |-> "unknown config section",
                                                      sec |-> SrcSection.name,
                                                      item |-> <<>>])
                /\ upd'.status = "running"
                /\ upd'.sec_i = upd.sec_i + 1
                /\ upd'.it_i = 0]_vars

\* section b, which only the source had, is in the target with its item
\* x = [1, 2], and nothing was logged about sections
C11_Witness ==
    /\ Merged
    /\ args.create_new_sections
    /\ <<"b">> \in NewSections
    /\ SectionCopied(<<"b">>)
    /\ BindsItem(heap, BoundTo(heap, args.cfg, <<"b">>), <<"x">>, <<"[", "1", ",", "2", "]">>)
    /\ \A i \in 1..Len(warnings) : warnings[i].kind # "unknown config section"

\* the names bound to containers at the call in both roots
CommonSections ==
    {n \in Keys(heap0[args.cfg].items) \cap Keys(heap0[args.cfg_new].items) :
        /\ BoundToContainer(heap0, args.cfg, n)
        /\ BoundToContainer(heap0, args.cfg_new, n)}

\* section s of the target / of the source, as bound at the call
TargetSec(s) == BoundTo(heap0, args.cfg, s)
SourceSec(s) == BoundTo(heap0, args.cfg_new, s)

\* the names bound to ConfigItems at the call in section s of both trees
CommonItems(s) ==
    {n \in Keys(heap0[TargetSec(s)].items) \cap Keys(heap0[SourceSec(s)].items) :
        /\ BoundToItem(heap0, TargetSec(s), n)
        /\ BoundToItem(heap0, SourceSec(s), n)}

\* the target's item s.n now, and the two items s.n at the call
ItemNow(s, n) == heap[BoundTo(heap, BoundTo(heap, args.cfg, s), n)]
TargetItem0(s, n) == heap0[BoundTo(heap0, TargetSec(s), n)]
SourceItem0(s, n) == heap0[BoundTo(heap0, SourceSec(s), n)]

\* section s of the target still is the container it was at the call
SameSection(s) == Bound(heap, args.cfg, s) /\ BoundTo(heap, args.cfg, s) = TargetSec(s)

\* the target's s.n is an item holding the source's value; its comment and the
\* section's are the source's if update_comments, else what they were
Overwritten(s, n) ==
    /\ SameSection(s)
    /\ BoundToItem(heap, TargetSec(s), n)
    /\ ItemNow(s, n).value = SourceItem0(s, n).value
    /\ ItemNow(s, n).comment =
          IF args.update_comments THEN SourceItem0(s, n).comment
          ELSE TargetItem0(s, n).comment

SectionComment(s) ==
    /\ SameSection(s)
    /\ heap[TargetSec(s)].comment =
          IF args.update_comments THEN heap0[SourceSec(s)].comment
          ELSE heap0[TargetSec(s)].comment

\* container c of the target binds n to the object it did at the call, and
\* that object is as it was
Kept(c, n) ==
    /\ Bound(heap, c, n)
    /\ BoundTo(heap, c, n) = BoundTo(heap0, c, n)
    /\ heap[BoundTo(heap0, c, n)] = heap0[BoundTo(heap0, c, n)]

\* what the target had at the call and the source has not: whole sections, and
\* the children of common sections, stay bound and unchanged
TargetOnlyKept ==
    /\ \A s \in Keys(heap0[args.cfg].items) \ Keys(heap0[args.cfg_new].items) :
          Kept(args.cfg, s)
    /\ \A s \in CommonSections :
          \A n \in Keys(heap0[TargetSec(s)].items) \ Keys(heap0[SourceSec(s)].items) :
             SameSection(s) /\ Kept(TargetSec(s), n)

\* C12: after update_config every item that a section of both trees had in
\* both holds the source's value, whatever create_new_sections and
\* create_new_items are; its comment and the section's comment are the source's
\* if update_comments is true and unchanged otherwise; and what the target had
\* and the source has not is never changed or removed.
C12_OverwritePolicy ==
    /\ upd.status # "idle" => TargetOnlyKept
    /\ Merged => \A s \in CommonSections :
                    /\ SectionComment(s)
                    /\ \A n \in CommonItems(s) : Overwritten(s, n)

\* update_comments false: x of section a took the source's value [1, 2] and
\* kept its comment 'a b', and the section kept its empty comment
C12_Witness ==
    /\ Merged
    /\ ~args.update_comments
    /\ <<"a">> \in CommonSections
    /\ <<"x">> \in CommonItems(<<"a">>)
    /\ TargetItem0(<<"a">>, <<"x">>).value = Plain(<<"1">>)
    /\ ItemNow(<<"a">>, <<"x">>).value = Plain(<<"[", "1", ",", "2", "]">>)
    /\ ItemNow(<<"a">>, <<"x">>).comment = <<"a", WS, "b">>
    /\ SourceItem0(<<"a">>, <<"x">>).comment = <<>>
    /\ heap[TargetSec(<<"a">>)].comment = <<>>
    /\ heap0[SourceSec(<<"a">>)].comment = <<"a", WS, "b">>

-----------------------------------------------------------------------------
(* Further properties of the parser *)

\* a definition has been started and its value does not evaluate yet
LiteralPending == current_item_name # <<>>

\* the loop has ended: the step is the code after it
EndsInput == status = "running" /\ status' # "running" /\ lnum' = lnum

\* the step raised 'could not evaluate definition' citing line n, and created
\* nothing
NotEvaluatedAt(n) ==
    /\ status' = "raised"
    /\ error' = [kind |-> "could not evaluate definition", line |-> n]
    /\ heap' = heap

\* C13: while a literal is pending, a section header, a comment, a
\* whitespace-only line or an item definition raises an error citing that line;
\* the end of input with a literal pending raises an error citing the last
\* line; so a returned parse has no pending literal.
C13_PendingLiteral ==
    /\ [][/\ (ReadsALine /\ LiteralPending
                /\ LineKind(li') \in {"header", "comment", "whitespace", "itemdef"})
               => NotEvaluatedAt(lnum + 1)
          /\ (EndsInput /\ LiteralPending) => NotEvaluatedAt(lnum)
          /\ (EndsInput /\ ~LiteralPending) => status' = "returned"]_vars
    /\ [](Returned => ~LiteralPending /\ current_def_lines = <<>>)

\* x = [1, was followed by the header [a], which was refused
C13_Witness ==
    /\ status = "raised"
    /\ error = [kind |-> "could not evaluate definition", line |-> lnum]
    /\ current_item_name = <<"x">>
    /\ current_def_lines = <<<<"[", "1", ",">>>>
    /\ li = Line_a

\* the step read a section header and did not raise
AcceptsHeader == ReadsALine /\ LineKind(li') = "header" /\ status' = "running"

\* the step read an item definition whose value evaluates, and did not raise
AcceptsItem ==
    /\ ReadsALine
    /\ LineKind(li') = "itemdef"
    /\ status' = "running"
    /\ literal_eval(_parse_item_def(li').val).ok

\* the position in `sections` of the container opened last at `level`
LastOpenedAt(level) ==
    CHOOSE i \in 1..Len(sections) :
        /\ sections[i].level = level
        /\ \A j \in (i + 1)..Len(sections) : sections[j].level # level

\* the container opened last at `level` by the headers read so far (level 0:
\* the root)
MostRecent(level) == sections[LastOpenedAt(level)].sec

\* the object the step created
Created == Len(heap) + 1

\* C14: an accepted header of level N creates a container that is bound,
\* under the header's name, in the container opened last at level N-1 (the
\* root for N = 1), and that becomes the current section; an item definition
\* accepted next is bound in the current section.
C14_ParentSelection ==
    [][/\ AcceptsHeader
            => /\ Len(heap') = Created
               /\ heap'[Created] = ConfigContainer(heap'[Created].comment)
               /\ Bound(heap', MostRecent(_parse_section_header(li').level - 1),
                        _parse_section_header(li').name)
               /\ BoundTo(heap', MostRecent(_parse_section_header(li').level - 1),
                          _parse_section_header(li').name) = Created
               /\ current_section' = Created
       /\ AcceptsItem
            => /\ current_section' = current_section
               /\ BindsItem(heap', current_section, _parse_item_def(li').name,
                            literal_eval(_parse_item_def(li').val).val)]_vars

\* [[a]] read after headers of levels 1, 2, 1: it is bound in the second
\* level-1 container, not in the first
C14_Witness ==
    /\ status = "running"
    /\ lnum = 4
    /\ li = Line_aa
    /\ [i \in 1..Len(sections) |-> sections[i].level] = <<0, 1, 2, 1, 2>>
    /\ current_section = sections[5].sec
    /\ BoundTo(heap, sections[4].sec, <<"a">>) = current_section
    /\ ~Bound(heap, sections[2].sec, <<"a">>)

RECURSIVE SpaceJoined(_)
\* the fragments in order, one space between neighbours
SpaceJoined(frags) ==
    IF frags = <<>> THEN <<>>
    ELSE IF Len(frags) = 1 THEN frags[1]
    ELSE frags[1] \o <<WS>> \o SpaceJoined(Tail(frags))

\* the step read a line, did not raise, and created a section or an item
CreatesNode == ReadsALine /\ status' = "running" /\ Len(heap') = Created

\* the step read a comment line and did not raise
AcceptsComment == ReadsALine /\ LineKind(li') = "comment" /\ status' = "running"

\* C15: a comment line is appended to the pending comments; a section or an
\* item, when created (for a multi-line literal: when it completes), gets the
\* pending comments joined by single spaces, and the pending list is emptied;
\* no other line changes the pending comments, and a comment once attached is
\* never changed.
C15_CommentAccumulation ==
    [][/\ AcceptsComment
            => /\ comment_lines' = Append(comment_lines, CommentText(li'))
               /\ heap' = heap
       /\ CreatesNode
            => /\ heap'[Created].comment = SpaceJoined(comment_lines)
               /\ comment_lines' = <<>>
       /\ (ReadsALine /\ status' = "running" /\ ~AcceptsComment /\ ~CreatesNode)
            => /\ comment_lines' = comment_lines
               /\ heap' = heap
       /\ \A i \in 1..Len(heap) : heap'[i].comment = heap[i].comment]_vars

\* the comment lines '# a b' and ' ;x' were attached, joined, to the item x
\* defined after them, and to nothing else
C15_Witness ==
    /\ status = "running"
    /\ li = Line_x1
    /\ comment_lines = <<>>
    /\ BoundToItem(heap, current_section, <<"x">>)
    /\ heap[BoundTo(heap, current_section, <<"x">>)].comment = <<"a", WS, "b", WS, "x">>
    /\ heap[current_section].comment = <<>>

\* the objects bound in container c of heap h
Children(h, c) == {h[c].items[i].id : i \in 1..Len(h[c].items)}

RECURSIVE Reach(_, _, _)
\* the objects reachable through bindings from the objects `todo`, added to `seen`
Reach(h, todo, seen) ==
    IF todo = {} THEN seen
    ELSE Reach(h,
               (todo \cup UNION {Children(h, c) : c \in todo}) \ (seen \cup todo),
               seen \cup todo)

\* the objects of the tree with root `root`
Tree(h, root) == Reach(h, {root}, {})

\* C16: when the parser attaches a new section or item, the container that
\* receives it is part of the tree of the root.
C16_NoOrphans ==
    [][CreatesNode
          => \E c \in Tree(heap', config) : Created \in Children(heap', c)]_vars

\* the level under which container c was registered
LevelOf(c) == sections[CHOOSE i \in 1..Len(sections) : sections[i].sec = c].level

\* c is the container of level `level` on the path from the root to the
\* section that is current before the step
Encloses(c, level) ==
    /\ current_section # None
    /\ current_section \in Tree(heap, c)
    /\ LevelOf(c) = level

\* C17: an accepted header of level N >= 2 is attached under the level-(N-1)
\* container on the path from the root to the section current before it.
\* (Stated for parents that are part of the tree; a parent outside the tree
\* is the case of C16.)
C17_TextualEnclosure ==
    [][(AcceptsHeader /\ _parse_section_header(li').level >= 2)
          => \A c \in Tree(heap, config) :
                Created \in Children(heap', c)
                   => Encloses(c, _parse_section_header(li').level - 1)]_vars

\* the containers among the objects S of heap h
ContainersOf(h, S) == {c \in S : isConfigContainer(h, c)}

RECURSIVE AtDepth(_)
\* the objects reached from the root through d child links
AtDepth(d) ==
    IF d = 0 THEN {config}
    ELSE UNION {Children(heap, c) : c \in ContainersOf(heap, AtDepth(d - 1))}

\* C18: after every line, a container reached from the root through d child
\* links was registered by a header of d bracket pairs (the root: 0), and the
\* root's children are all containers.
C18_DepthIsLevel ==
    /\ \A d \in 0..Len(heap) :
          \A c \in ContainersOf(heap, AtDepth(d)) : LevelOf(c) = d
    /\ AtDepth(1) = ContainersOf(heap, AtDepth(1))

\* a returned tree with a container at depth 3 and an item in it
C18_Witness ==
    /\ Returned
    /\ \E c \in ContainersOf(heap, AtDepth(3)) :
          /\ LevelOf(c) = 3
          /\ \E i \in Children(heap, c) : isConfigItem(heap, i)

-----------------------------------------------------------------------------
(* update_config followed by assignments to items of the target *)

\* self.attr = value, for a plain value and an item attr of a section of the
\* target, once update_config has returned
AssignTarget ==
    \E self \in ContainersOf(heap, Tree(heap, args.cfg)), attr \in AttrNames,
       v \in PlainValues :
        /\ upd.status = "returned"
        /\ nwrites < MaxWrites
        /\ BoundToItem(heap, self, attr)
        /\ heap' = __setattr__(heap, self, attr, Plain(v))
        /\ call' = [op |-> "set", self |-> self, attr |-> attr, value |-> Plain(v),
                    ret |-> [ok |-> TRUE, val |-> Plain(<<>>)]]
        /\ nwrites' = nwrites + 1
        /\ UNCHANGED <<parserVars, mergeVars>>

NextMergeAssign ==
    \/ UpdateSectionStep
    \/ UpdateItemStep
    \/ UpdateReturn
    \/ AssignTarget

SpecMergeAssign == InitMerge /\ [][NextMergeAssign]_vars

\* every object of the source tree is as it was when update_config was called
SourceAsAtCall == \A id \in Tree(heap0, args.cfg_new) : heap[id] = heap0[id]

\* C19: update_config leaves the source unchanged, and so does every later
\* plain-value assignment to an item of the target, whatever the flags.
C19_MergeIndependence == upd.status # "idle" => SourceAsAtCall

\* the names bound to containers at the call in section s of both trees
CommonSubsections(s) ==
    {n \in Keys(heap0[TargetSec(s)].items) \cap Keys(heap0[SourceSec(s)].items) :
        /\ BoundToContainer(heap0, TargetSec(s), n)
        /\ BoundToContainer(heap0, SourceSec(s), n)}

\* C20: on parsed trees update_config never raises, whatever the flags, and a
\* nested subsection that a section of both trees has in both is still a
\* container of the target when it returns.
C20_MergeTotality ==
    /\ upd.status # "raised"
    /\ Merged => \A s \in CommonSections : \A n \in CommonSubsections(s) :
                    BoundToContainer(heap, BoundTo(heap, args.cfg, s), n)

====
